---- MODULE Spec2Model ----
(***************************************************************************)
(* Model of the discrete-event traffic-signal simulator:                   *)
(*   src/src/traffic_simulator.py  (TrafficSimulator, one lane)            *)
(*   src/src/junction_manager.py   (JunctionManager, the junction)         *)
(*                                                                         *)
(* Units.  Every time (dt, sim_time, green times, discharge costs, wait    *)
(* times) is an integer number of HALF SECONDS: 1.0 s is 2, the 0.5 s of   *)
(* the starvation guard is 1, a Car's 2.0 s is 4.  Every priority score is *)
(* an integer number of QUARTERS: score 5 is 20.  With dt a multiple of    *)
(* 0.5 s and alpha_wait_weight a multiple of 0.5 the floats of the code    *)
(* are exact multiples of 0.25, so the integers are the program's values.  *)
(***************************************************************************)
EXTENDS Integers, Sequences, FiniteSets, TLC

(***************************************************************************)
(* Bounds of the model.                                                    *)
(***************************************************************************)
MaxTime == 4        \* no tick moves the junction clock past this (half seconds)
MaxDt == 4          \* the largest dt of a tick (half seconds)
MaxVehicles == 3    \* no more vehicles than this ever arrive at the junction
MaxBack == 1        \* the most negative dt a caller passes, and the furthest a
                    \* lane clock falls behind the junction clock (half seconds)

VARIABLES
    config,                 \* JunctionManager.config
    lanes,                  \* JunctionManager.lanes: lane id -> TrafficSimulator
    active_lane_id,         \* JunctionManager.active_lane_id
    sim_time,               \* JunctionManager.sim_time
    last_switch_time,       \* JunctionManager.last_switch_time
    lane_last_green_times,  \* JunctionManager.lane_last_green_times
    events_log,             \* JunctionManager.events_log
    ret,                    \* what the last JunctionManager.step call returned or raised
    departures              \* what process_traffic returned to process_departures in that call

vars == << config, lanes, active_lane_id, sim_time, last_switch_time,
           lane_last_green_times, events_log, ret, departures >>

(***************************************************************************)
(* TrafficSimulator                                                        *)
(***************************************************************************)

\* The keys of vehicle_probs: the vehicle types an arrival can have.
VehicleTypes == {"Car", "Bike", "Bus", "Truck"}

\* discharge_costs.get(v_type, 2.0), in half seconds.
DischargeCost(v_type) ==
    CASE v_type = "Car"   -> 4
      [] v_type = "Bike"  -> 2
      [] v_type = "Bus"   -> 6
      [] v_type = "Truck" -> 8
      [] OTHER            -> 4

\* The 0.5 s of "allow at least 1 vehicle if time > 0.5s", in half seconds.
GuardTime == 1

\* TrafficSimulator.__init__
NewLane(lane_id, arrival_rate_per_min) ==
    [ lane_id         |-> lane_id,
      arrival_rate    |-> arrival_rate_per_min,
      sim_time        |-> 0,
      queue           |-> << >>,
      vehicles_passed |-> 0 ]

\* queue_length property
QueueLength(lane) == Len(lane.queue)

\* lam = (arrival_rate / 60.0) * duration_seconds: only its sign matters here.
\* np.random.poisson raises ValueError for lam < 0 and returns 0 for lam = 0.
LamSign(lane, duration) ==
    IF lane.arrival_rate = 0 \/ duration = 0 THEN 0
    ELSE IF (lane.arrival_rate > 0) = (duration > 0) THEN 1 ELSE -1

\* The vehicles step appends for the drawn types: each stamped with the lane clock.
NewVehicles(new_types, now) ==
    [ i \in 1..Len(new_types) |-> [ type |-> new_types[i], arrival_time |-> now ] ]

\* LaneStep stamping the arrivals with the lane clock before it is advanced.
LaneStepStampBefore(lane, duration, new_types) ==
    LET now == lane.sim_time + duration
        raised == LamSign(lane, duration) < 0
        queue == IF raised THEN lane.queue
                 ELSE lane.queue \o NewVehicles(new_types, lane.sim_time)
    IN  [ lane   |-> [ lane EXCEPT !.sim_time = now, !.queue = queue ],
          raised |-> raised,
          report |-> [ lane_id      |-> lane.lane_id,
                       new_arrivals |-> Len(new_types),
                       queue_length |-> Len(queue),
                       new_types    |-> new_types ] ]

\* TrafficSimulator.step(duration) with new_types the types the random draws gave.
\* The clock moves first; a negative lam then raises before anything is queued.
LaneStep(lane, duration, new_types) ==
    LET now == lane.sim_time + duration
        raised == LamSign(lane, duration) < 0
        queue == IF raised THEN lane.queue
                 ELSE lane.queue \o NewVehicles(new_types, now)
    IN  [ lane   |-> [ lane EXCEPT !.sim_time = now, !.queue = queue ],
          raised |-> raised,
          report |-> [ lane_id      |-> lane.lane_id,
                       new_arrivals |-> Len(new_types),
                       queue_length |-> Len(queue),
                       new_types    |-> new_types ] ]

\* CanClear without the starvation guard: a vehicle leaves only if its whole
\* cost fits in the time remaining.
CanClearNoGuard(time_remaining, cost, discharged_count) ==
    time_remaining >= cost

\* CanClear granting the one-vehicle allowance to every vehicle of a call.
CanClearGuardEvery(time_remaining, cost, discharged_count) ==
    time_remaining >= cost \/ time_remaining > GuardTime

\* "Can this vehicle clear?": the condition of the if in the discharge loop.
CanClear(time_remaining, cost, discharged_count) ==
    time_remaining >= cost \/ (discharged_count = 0 /\ time_remaining > GuardTime)

\* The while loop of process_traffic, from the state at the top of one iteration.
RECURSIVE DischargeLoop(_, _, _, _, _, _)
DischargeLoop(queue, time_remaining, discharged_count, discharged_types, total_wait_time, now) ==
    IF queue # << >> /\ time_remaining > 0
    THEN LET v == Head(queue)
             cost == DischargeCost(v.type)
         IN  IF CanClear(time_remaining, cost, discharged_count)
             THEN DischargeLoop(Tail(queue), time_remaining - cost,
                                discharged_count + 1,
                                Append(discharged_types, v.type),
                                total_wait_time + (now - v.arrival_time), now)
             ELSE [ queue |-> queue, discharged_count |-> discharged_count,
                    discharged_types |-> discharged_types,
                    total_wait_time |-> total_wait_time ]
    ELSE [ queue |-> queue, discharged_count |-> discharged_count,
           discharged_types |-> discharged_types,
           total_wait_time |-> total_wait_time ]

\* avg_wait_time: total_wait_time / discharged_count as the fraction <<num, den>>,
\* and 0.0 (<<0, 1>>) when nothing was discharged.
AvgWaitTime(total_wait_time, discharged_count) ==
    IF discharged_count > 0 THEN << total_wait_time, discharged_count >>
    ELSE << 0, 1 >>

\* ProcessTraffic counting the discharged vehicles without removing them from
\* the queue.
ProcessTrafficKeepsQueue(lane, green_light_duration) ==
    LET r == DischargeLoop(lane.queue, green_light_duration, 0, << >>, 0,
                           lane.sim_time)
    IN  [ lane  |-> [ lane EXCEPT
                        !.vehicles_passed = lane.vehicles_passed + r.discharged_count ],
          stats |-> [ discharged_count |-> r.discharged_count,
                      discharged_types |-> r.discharged_types,
                      avg_wait_time    |-> AvgWaitTime(r.total_wait_time,
                                                       r.discharged_count) ] ]

\* ProcessTraffic taking the discharged vehicles off the tail of the queue.
ProcessTrafficFromTail(lane, green_light_duration) ==
    LET r == DischargeLoop(lane.queue, green_light_duration, 0, << >>, 0,
                           lane.sim_time)
    IN  [ lane  |-> [ lane EXCEPT !.queue = SubSeq(lane.queue, 1,
                                                   Len(lane.queue) - r.discharged_count),
                        !.vehicles_passed = lane.vehicles_passed + r.discharged_count ],
          stats |-> [ discharged_count |-> r.discharged_count,
                      discharged_types |-> r.discharged_types,
                      avg_wait_time    |-> AvgWaitTime(r.total_wait_time,
                                                       r.discharged_count) ] ]

\* ProcessTraffic taking a green that is not positive for the default of 1.0 s.
ProcessTrafficDefaultGreen(lane, green_light_duration) ==
    LET green == IF green_light_duration <= 0 THEN 2 ELSE green_light_duration
        r == DischargeLoop(lane.queue, green, 0, << >>, 0, lane.sim_time)
    IN  [ lane  |-> [ lane EXCEPT !.queue = r.queue,
                        !.vehicles_passed = lane.vehicles_passed + r.discharged_count ],
          stats |-> [ discharged_count |-> r.discharged_count,
                      discharged_types |-> r.discharged_types,
                      avg_wait_time    |-> AvgWaitTime(r.total_wait_time,
                                                       r.discharged_count) ] ]

\* TrafficSimulator.process_traffic(green_light_duration): the lane after the
\* call and the stats it returns.
ProcessTraffic(lane, green_light_duration) ==
    LET r == DischargeLoop(lane.queue, green_light_duration, 0, << >>, 0,
                           lane.sim_time)
    IN  [ lane  |-> [ lane EXCEPT !.queue = r.queue,
                        !.vehicles_passed = lane.vehicles_passed + r.discharged_count ],
          stats |-> [ discharged_count |-> r.discharged_count,
                      discharged_types |-> r.discharged_types,
                      avg_wait_time    |-> AvgWaitTime(r.total_wait_time,
                                                       r.discharged_count) ] ]

(***************************************************************************)
(* JunctionManager                                                         *)
(***************************************************************************)

\* The keys of config["arrival_rates"] in insertion order: the order of the
\* lanes dict, which every loop over the lanes and max() follow.
LaneKeys(cfg) == [ i \in 1..Len(cfg.arrival_rates) |-> cfg.arrival_rates[i][1] ]

\* self.lanes = {lid: TrafficSimulator(lid, arrival_rate_per_min=rate) ...}
NewLanes(cfg) ==
    [ lid \in { cfg.arrival_rates[i][1] : i \in 1..Len(cfg.arrival_rates) } |->
        LET i == CHOOSE k \in 1..Len(cfg.arrival_rates) : cfg.arrival_rates[k][1] = lid
        IN  NewLane(lid, cfg.arrival_rates[i][2]) ]

\* The junction as one value: the fields of self.
Junction == [ config                |-> config,
              lanes                 |-> lanes,
              active_lane_id        |-> active_lane_id,
              sim_time              |-> sim_time,
              last_switch_time      |-> last_switch_time,
              lane_last_green_times |-> lane_last_green_times,
              events_log            |-> events_log ]

\* JunctionManager.__init__: the fields after construction with the merged config.
NewJunction(cfg) ==
    [ config                |-> cfg,
      lanes                 |-> NewLanes(cfg),
      active_lane_id        |-> "North",
      sim_time              |-> 0,
      last_switch_time      |-> 0,
      lane_last_green_times |-> [ lid \in DOMAIN NewLanes(cfg) |-> 0 ],
      events_log            |-> << >> ]

\* update_arrivals: lane.step(dt) on the lanes in key order, from key k on.  A
\* ValueError of one lane.step ends the loop: the lanes before it, and the clock
\* of the lane that raised, have moved.
RECURSIVE UpdateArrivalsFrom(_, _, _, _, _, _)
UpdateArrivalsFrom(k, keys, ls, states, dt, arr) ==
    IF k > Len(keys) THEN [ lanes |-> ls, states |-> states, raised |-> FALSE ]
    ELSE LET lid == keys[k]
             r == LaneStep(ls[lid], dt, arr[lid])
             ls2 == [ ls EXCEPT ![lid] = r.lane ]
         IN  IF r.raised
             THEN [ lanes |-> ls2, states |-> states, raised |-> TRUE ]
             ELSE UpdateArrivalsFrom(k + 1, keys, ls2,
                                     [ states EXCEPT ![lid] = r.report ], dt, arr)

\* A lane that has no report (the loop never reached it).
NoReport == [ lane_id |-> "", new_arrivals |-> 0, queue_length |-> 0, new_types |-> << >> ]

UpdateArrivals(j, dt, arr) ==
    UpdateArrivalsFrom(1, LaneKeys(j.config), j.lanes,
                       [ lid \in DOMAIN j.lanes |-> NoReport ], dt, arr)

\* f"{x:.1f}" of a score given in quarters, as a number of tenths: Python rounds
\* the exact halves .25 and .75 to the even digit, .2 and .8.
FormatScore(score) ==
    LET whole == score \div 4
        frac == score % 4
    IN  10 * whole + (CASE frac = 0 -> 0 [] frac = 1 -> 2 [] frac = 2 -> 5 [] OTHER -> 8)

\* f"{self.sim_time:.1f}s" of a time given in half seconds, as a number of tenths.
FormatTime(t) == 5 * t

\* The switch reasons, and None for "no switch".
NoEvent == [ tag |-> "None", lane |-> "", scores |-> << >> ]
LaneEmptyReason(active) == [ tag |-> "LANE_EMPTY", lane |-> active, scores |-> << >> ]
MaxTimeReason(current_score) ==
    [ tag |-> "MAX_TIME_EXPIRED", lane |-> "", scores |-> << FormatScore(current_score) >> ]
PriorityReason(best_score, current_score) ==
    [ tag |-> "PRIORITY_OVERRIDE", lane |-> "",
      scores |-> << FormatScore(best_score), FormatScore(current_score) >> ]

\* ExecuteSwitch recording the end of the minimum green as the switch time.
ExecuteSwitchEndOfHold(j, target_lane, reason) ==
    [ j EXCEPT !.events_log = Append(j.events_log,
                                     [ time   |-> FormatTime(j.sim_time),
                                       event  |-> "SHIFT_PRIORITY",
                                       from   |-> j.active_lane_id,
                                       to     |-> target_lane,
                                       reason |-> reason ]),
               !.active_lane_id = target_lane,
               !.last_switch_time = j.sim_time + j.config.min_green_time,
               !.lane_last_green_times = [ j.lane_last_green_times EXCEPT
                                             ![target_lane] = j.sim_time ] ]

\* ExecuteSwitch forgetting to stamp the target lane's last green time.
ExecuteSwitchNoGreenStamp(j, target_lane, reason) ==
    [ j EXCEPT !.events_log = Append(j.events_log,
                                     [ time   |-> FormatTime(j.sim_time),
                                       event  |-> "SHIFT_PRIORITY",
                                       from   |-> j.active_lane_id,
                                       to     |-> target_lane,
                                       reason |-> reason ]),
               !.active_lane_id = target_lane,
               !.last_switch_time = j.sim_time ]

\* ExecuteSwitch keeping only the newest event in the log.
ExecuteSwitchLastEventOnly(j, target_lane, reason) ==
    [ j EXCEPT !.events_log = << [ time   |-> FormatTime(j.sim_time),
                                   event  |-> "SHIFT_PRIORITY",
                                   from   |-> j.active_lane_id,
                                   to     |-> target_lane,
                                   reason |-> reason ] >>,
               !.active_lane_id = target_lane,
               !.last_switch_time = j.sim_time,
               !.lane_last_green_times = [ j.lane_last_green_times EXCEPT
                                             ![target_lane] = j.sim_time ] ]

\* ExecuteSwitch stamping the last green time of the lane it leaves.
ExecuteSwitchStampsLeft(j, target_lane, reason) ==
    [ j EXCEPT !.events_log = Append(j.events_log,
                                     [ time   |-> FormatTime(j.sim_time),
                                       event  |-> "SHIFT_PRIORITY",
                                       from   |-> j.active_lane_id,
                                       to     |-> target_lane,
                                       reason |-> reason ]),
               !.active_lane_id = target_lane,
               !.last_switch_time = j.sim_time,
               !.lane_last_green_times = [ j.lane_last_green_times EXCEPT
                                             ![j.active_lane_id] = j.sim_time ] ]

\* ExecuteSwitch logging the event without handing over the green.
ExecuteSwitchKeepsActive(j, target_lane, reason) ==
    [ j EXCEPT !.events_log = Append(j.events_log,
                                     [ time   |-> FormatTime(j.sim_time),
                                       event  |-> "SHIFT_PRIORITY",
                                       from   |-> j.active_lane_id,
                                       to     |-> target_lane,
                                       reason |-> reason ]),
               !.last_switch_time = j.sim_time,
               !.lane_last_green_times = [ j.lane_last_green_times EXCEPT
                                             ![target_lane] = j.sim_time ] ]

\* execute_switch(target_lane, reason)
ExecuteSwitch(j, target_lane, reason) ==
    [ j EXCEPT !.events_log = Append(j.events_log,
                                     [ time   |-> FormatTime(j.sim_time),
                                       event  |-> "SHIFT_PRIORITY",
                                       from   |-> j.active_lane_id,
                                       to     |-> target_lane,
                                       reason |-> reason ]),
               !.active_lane_id = target_lane,
               !.last_switch_time = j.sim_time,
               !.lane_last_green_times = [ j.lane_last_green_times EXCEPT
                                             ![target_lane] = j.sim_time ] ]

\* StateDuration forgetting the last switch: the time since the start.
StateDurationSinceStart(j) == j.sim_time

\* state_duration = self.sim_time - self.last_switch_time
StateDuration(j) == j.sim_time - j.last_switch_time

\* MustHold holding the green only while the active lane has vehicles queued.
MustHoldWhenBusy(j) ==
    j.sim_time - j.last_switch_time < j.config.min_green_time
        /\ QueueLength(j.lanes[j.active_lane_id]) > 0

\* "Must hold green": the early return of evaluate_switch_conditions.
MustHold(j) == StateDuration(j) < j.config.min_green_time

\* MustSwitch with > for >=.
MustSwitchStrict(j) == j.sim_time - j.last_switch_time > j.config.max_green_time

\* must_switch = state_duration >= max_green_time
MustSwitch(j) == StateDuration(j) >= j.config.max_green_time

\* wait_time of the score loop: 0 for the active lane.
WaitTime(j, lid) ==
    IF lid = j.active_lane_id THEN 0 ELSE j.sim_time - j.lane_last_green_times[lid]

\* Score without the waiting term: the queue length alone.
ScoreQueueOnly(j, lid) == 4 * QueueLength(j.lanes[lid])

\* score = queue_length + alpha_wait_weight * wait_time, in quarters
\* (alpha_wait_weight counted in halves, wait_time in half seconds).
Score(j, lid) ==
    4 * QueueLength(j.lanes[lid]) + j.config.alpha_wait_weight * WaitTime(j, lid)

\* Candidates keeping the active lane among the candidates.
CandidatesWithActive(j) == LaneKeys(j.config)

\* candidates = {k: v for k, v in scores.items() if k != active}, as its keys in order.
Candidates(j) ==
    SelectSeq(LaneKeys(j.config), LAMBDA k : k # j.active_lane_id)

\* BestCandidate taking the last key, in order, of the highest score.
BestCandidateLast(j) ==
    LET c == Candidates(j)
        i == CHOOSE n \in 1..Len(c) :
                 /\ \A m \in 1..Len(c) : Score(j, c[m]) <= Score(j, c[n])
                 /\ \A m \in (n + 1)..Len(c) : Score(j, c[m]) < Score(j, c[n])
    IN  c[i]

\* max(candidates, key=candidates.get): the first key, in order, of the highest score.
BestCandidate(j) ==
    LET c == Candidates(j)
        i == CHOOSE n \in 1..Len(c) :
                 /\ \A m \in 1..Len(c) : Score(j, c[m]) <= Score(j, c[n])
                 /\ \A m \in 1..(n - 1) : Score(j, c[m]) < Score(j, c[n])
    IN  c[i]

\* LaneEmptyCondition testing the active queue with < for <=.
LaneEmptyConditionNegativeQueue(j) ==
    QueueLength(j.lanes[j.active_lane_id]) < 0 /\ Score(j, BestCandidate(j)) > 20

\* if self.lanes[active].queue_length <= 0 and best_score > 5
LaneEmptyCondition(j) ==
    QueueLength(j.lanes[j.active_lane_id]) <= 0 /\ Score(j, BestCandidate(j)) > 20

\* PriorityCondition with >= for >.
PriorityConditionAtLeast(j) ==
    Score(j, BestCandidate(j)) >=
        Score(j, j.active_lane_id) + 4 * j.config.queue_threshold

\* elif best_score > current_score + queue_threshold
PriorityCondition(j) ==
    Score(j, BestCandidate(j)) >
        Score(j, j.active_lane_id) + 4 * j.config.queue_threshold

\* TriggerReason without the hard limit.
TriggerReasonNoMaxTime(j) ==
    IF LaneEmptyCondition(j) THEN LaneEmptyReason(j.active_lane_id)
    ELSE IF PriorityCondition(j)
         THEN PriorityReason(Score(j, BestCandidate(j)), Score(j, j.active_lane_id))
    ELSE NoEvent

\* TriggerReason testing the hard limit before the empty lane.
TriggerReasonMaxTimeFirst(j) ==
    IF MustSwitch(j) THEN MaxTimeReason(Score(j, j.active_lane_id))
    ELSE IF LaneEmptyCondition(j) THEN LaneEmptyReason(j.active_lane_id)
    ELSE IF PriorityCondition(j)
         THEN PriorityReason(Score(j, BestCandidate(j)), Score(j, j.active_lane_id))
    ELSE NoEvent

\* The if / elif / elif chain: the reason, or NoEvent for the empty string.
TriggerReason(j) ==
    IF LaneEmptyCondition(j) THEN LaneEmptyReason(j.active_lane_id)
    ELSE IF MustSwitch(j) THEN MaxTimeReason(Score(j, j.active_lane_id))
    ELSE IF PriorityCondition(j)
         THEN PriorityReason(Score(j, BestCandidate(j)), Score(j, j.active_lane_id))
    ELSE NoEvent

\* evaluate_switch_conditions: the junction after it, the reason it returns (or
\* None), and whether scores[self.active_lane_id] raised KeyError.
EvaluateSwitchConditions(j) ==
    IF MustHold(j) THEN [ j |-> j, event |-> NoEvent, raised |-> FALSE ]
    ELSE IF Len(Candidates(j)) = 0 THEN [ j |-> j, event |-> NoEvent, raised |-> FALSE ]
    ELSE IF j.active_lane_id \notin DOMAIN j.lanes
         THEN [ j |-> j, event |-> NoEvent, raised |-> TRUE ]
    ELSE IF TriggerReason(j) # NoEvent
         THEN [ j |-> ExecuteSwitch(j, BestCandidate(j), TriggerReason(j)),
                event |-> TriggerReason(j), raised |-> FALSE ]
    ELSE [ j |-> j, event |-> NoEvent, raised |-> FALSE ]

\* DepartureLane always serving the first lane.
DepartureLaneFirst(j) == LaneKeys(j.config)[1]

\* The lane process_departures serves: the active lane.
DepartureLane(j) == j.active_lane_id

\* What process_traffic returned when no call was made.
NoDepartures == [ lane |-> "", discharged_count |-> 0, discharged_types |-> << >>,
                  avg_wait_time |-> << 0, 1 >> ]

\* process_departures(dt): process_traffic(dt) on the active lane.
ProcessDepartures(j, dt) ==
    LET lid == DepartureLane(j)
        r == ProcessTraffic(j.lanes[lid], dt)
    IN  [ j     |-> [ j EXCEPT !.lanes = [ j.lanes EXCEPT ![lid] = r.lane ] ],
          stats |-> [ lane             |-> lid,
                      discharged_count |-> r.stats.discharged_count,
                      discharged_types |-> r.stats.discharged_types,
                      avg_wait_time    |-> r.stats.avg_wait_time ] ]

\* What step returned: kind "return" with the returned dictionary, or the
\* exception it raised; kind "none" before the first call.
NoReturn(kind) ==
    [ kind |-> kind, lane_states |-> << >>, active_lane |-> "", green_time |-> 0,
      switch_event |-> NoEvent, sim_time |-> 0 ]

\* StepResult serving the departures before the switch evaluation.
StepResultDepartFirst(j, dt, arr) ==
    LET ua == UpdateArrivals(j, dt, arr)
        j1 == [ j EXCEPT !.lanes = ua.lanes ]
        j2 == [ j1 EXCEPT !.sim_time = j.sim_time + dt ]
        pd == ProcessDepartures(j2, dt)
        ev == EvaluateSwitchConditions(pd.j)
    IN  IF ua.raised
        THEN [ j |-> j1, ret |-> NoReturn("ValueError"), departures |-> NoDepartures ]
        ELSE [ j |-> ev.j,
               ret |-> [ kind         |-> "return",
                         lane_states  |-> ua.states,
                         active_lane  |-> ev.j.active_lane_id,
                         green_time   |-> ev.j.sim_time - ev.j.last_switch_time,
                         switch_event |-> ev.event,
                         sim_time     |-> ev.j.sim_time ],
               departures |-> pd.stats ]

\* JunctionManager.step(dt), with arr[lid] the vehicle types the random draws of
\* lane lid give in this call: the junction after the call, what the call
\* returned or raised, and what process_traffic returned inside it.
StepResult(j, dt, arr) ==
    LET ua == UpdateArrivals(j, dt, arr)
        j1 == [ j EXCEPT !.lanes = ua.lanes ]
        j2 == [ j1 EXCEPT !.sim_time = j.sim_time + dt ]
        ev == EvaluateSwitchConditions(j2)
        pd == ProcessDepartures(ev.j, dt)
    IN  IF ua.raised
        THEN [ j |-> j1, ret |-> NoReturn("ValueError"), departures |-> NoDepartures ]
        ELSE IF ev.raised
        THEN [ j |-> j2, ret |-> NoReturn("KeyError"), departures |-> NoDepartures ]
        ELSE IF DepartureLane(ev.j) \notin DOMAIN ev.j.lanes
        THEN [ j |-> ev.j, ret |-> NoReturn("KeyError"), departures |-> NoDepartures ]
        ELSE [ j |-> pd.j,
               ret |-> [ kind         |-> "return",
                         lane_states  |-> ua.states,
                         active_lane  |-> pd.j.active_lane_id,
                         green_time   |-> pd.j.sim_time - pd.j.last_switch_time,
                         switch_event |-> ev.event,
                         sim_time     |-> pd.j.sim_time ],
               departures |-> pd.stats ]

(***************************************************************************)
(* The state machine                                                       *)
(***************************************************************************)

\* The configurations the junction is constructed with: the caller's config
\* merged over the defaults.  Times are in half seconds and alpha_wait_weight in
\* halves (0.5 is 1); a lane with arrival rate 0 never receives a vehicle.
\* min 1.0 s, max 2.0 s, threshold 1, alpha 3.0; vehicles arrive North and South.
ShortGreenConfig ==
    [ min_green_time |-> 2, max_green_time |-> 4, queue_threshold |-> 1,
      max_wait_time |-> 90, alpha_wait_weight |-> 6,
      arrival_rates |-> << <<"North", 12>>, <<"South", 10>>, <<"East", 0>>, <<"West", 0>> >> ]

\* min 0.5 s, max 1.5 s, threshold 2, the default alpha 0.5; vehicles arrive South,
\* so that the challengers of the first green differ in score.
SlowWeightConfig ==
    [ min_green_time |-> 1, max_green_time |-> 3, queue_threshold |-> 2,
      max_wait_time |-> 90, alpha_wait_weight |-> 1,
      arrival_rates |-> << <<"North", 0>>, <<"South", 12>>, <<"East", 0>>, <<"West", 0>> >> ]

ValidConfigs == { ShortGreenConfig, SlowWeightConfig }

\* The vehicle types the draws of the model give: the fastest and the slowest.
ArrivalTypes == {"Bike", "Truck"}

\* The sequences of at most n vehicle types.
TypeSeqs(n) == UNION { [ 1..k -> ArrivalTypes ] : k \in 0..n }

\* The vehicles that have arrived so far: those queued and those discharged.
RECURSIVE Arrived(_)
Arrived(ids) ==
    IF ids = {} THEN 0
    ELSE LET lid == CHOOSE x \in ids : TRUE
         IN  Len(lanes[lid].queue) + lanes[lid].vehicles_passed + Arrived(ids \ {lid})

\* The draws of one tick of dt for the lanes in ids, room being the number of
\* vehicles that may still arrive: none for a lane whose lam is not positive.
RECURSIVE DrawsOver(_, _, _)
DrawsOver(ids, dt, room) ==
    IF ids = {} THEN { [ lid \in {} |-> << >> ] }
    ELSE LET lid == CHOOSE x \in ids : TRUE
             draws == IF LamSign(lanes[lid], dt) <= 0 THEN { << >> } ELSE TypeSeqs(room)
         IN  UNION { { (lid :> a) @@ f : f \in DrawsOver(ids \ {lid}, dt, room - Len(a)) } :
                     a \in draws }

ArrivalChoices(dt) == DrawsOver(DOMAIN lanes, dt, MaxVehicles - Arrived(DOMAIN lanes))

\* After JunctionManager(cfg), cfg one of cfgs.
InitWith(cfgs) ==
    \E cfg \in cfgs :
        /\ config = NewJunction(cfg).config
        /\ lanes = NewJunction(cfg).lanes
        /\ active_lane_id = NewJunction(cfg).active_lane_id
        /\ sim_time = NewJunction(cfg).sim_time
        /\ last_switch_time = NewJunction(cfg).last_switch_time
        /\ lane_last_green_times = NewJunction(cfg).lane_last_green_times
        /\ events_log = NewJunction(cfg).events_log
        /\ ret = NoReturn("none")
        /\ departures = NoDepartures

\* One call junction.step(dt).
Step(dt, arr) ==
    LET r == StepResult(Junction, dt, arr)
    IN  /\ sim_time + dt <= MaxTime
        /\ config' = r.j.config
        /\ lanes' = r.j.lanes
        /\ active_lane_id' = r.j.active_lane_id
        /\ sim_time' = r.j.sim_time
        /\ last_switch_time' = r.j.last_switch_time
        /\ lane_last_green_times' = r.j.lane_last_green_times
        /\ events_log' = r.j.events_log
        /\ ret' = r.ret
        /\ departures' = r.departures

Init == InitWith(ValidConfigs)

\* The driver's loop: step after step, each with a positive dt.
Tick == \E dt \in 1..MaxDt : \E arr \in ArrivalChoices(dt) : Step(dt, arr)

Next == Tick

Spec == Init /\ [][Next]_vars

(***************************************************************************)
(* The same driver without the caller's contract dt > 0: step accepts any  *)
(* number, so dt = 0 and negative dt are calls the code runs.              *)
(***************************************************************************)
AnyTick ==
    \E dt \in (0 - MaxBack)..MaxDt :
        /\ \A lid \in DOMAIN lanes : lanes[lid].sim_time + dt >= sim_time - MaxBack
        /\ \E arr \in ArrivalChoices(dt) : Step(dt, arr)

NextAnyDt == AnyTick

SpecAnyDt == Init /\ [][NextAnyDt]_vars

(***************************************************************************)
(* Construction with any caller-supplied arrival_rates mapping: the keys   *)
(* of the mapping become the lanes, whatever they are.                     *)
(***************************************************************************)
\* A two-lane junction whose caller names its lanes East and West.
EastWestConfig ==
    [ min_green_time |-> 2, max_green_time |-> 4, queue_threshold |-> 1,
      max_wait_time |-> 90, alpha_wait_weight |-> 6,
      arrival_rates |-> << <<"East", 8>>, <<"West", 15>> >> ]

AnyConfigs == ValidConfigs \cup { EastWestConfig }

InitAnyConfig == InitWith(AnyConfigs)

SpecAnyConfig == InitAnyConfig /\ [][Next]_vars

(***************************************************************************)
(* What one tick saw, read off the step from the state before it (unprimed)*)
(* to the state after it (primed) and the dictionary it returned.          *)
(***************************************************************************)
\* The dt of the tick.
TickDt == sim_time' - sim_time

\* The step returned (it did not raise).
Returned == ret'.kind = "return"

\* stateDuration as the switch evaluation of the tick saw it.
SeenDuration == sim_time' - last_switch_time

\* The queue length of a lane at the evaluation: after the arrivals of the tick.
SeenQueue(lid) == ret'.lane_states[lid].queue_length

\* The score of a lane at the evaluation, in quarters.
SeenScore(lid) ==
    4 * SeenQueue(lid)
      + config.alpha_wait_weight
          * (IF lid = active_lane_id THEN 0 ELSE sim_time' - lane_last_green_times[lid])

\* The lanes other than the one active at the evaluation.
Challengers == DOMAIN lanes \ {active_lane_id}

\* The LANE_EMPTY condition: active queue empty and the best challenger above 5.
SeenLaneEmpty ==
    SeenQueue(active_lane_id) = 0 /\ \E lid \in Challengers : SeenScore(lid) > 20

\* mustSwitch.
SeenMustSwitch == SeenDuration >= config.max_green_time

\* The PRIORITY_OVERRIDE condition: the best challenger beats the incumbent by
\* more than queueThreshold.
SeenPriority ==
    \E lid \in Challengers :
        SeenScore(lid) > SeenScore(active_lane_id) + 4 * config.queue_threshold

\* The vehicles discharged from a lane in the tick, as process_traffic counted them.
Discharged(lid) ==
    IF lid = departures'.lane THEN departures'.discharged_count ELSE 0

\* The last logged event.
LastEvent == events_log[Len(events_log)]

(***************************************************************************)
(* Claims                                                                  *)
(***************************************************************************)

\* C1: Queue conservation.  In every tick and for every lane, the queue length
\* after the tick is the queue length before it plus the arrivals reported for
\* the lane minus the vehicles discharged from it, and only the lane that is
\* active during the departure phase discharges.
C1_QueueConservation ==
    [][ Returned =>
          /\ departures'.lane = active_lane_id'
          /\ \A lid \in DOMAIN lanes :
                Len(lanes'[lid].queue) =
                    Len(lanes[lid].queue) + ret'.lane_states[lid].new_arrivals
                      - Discharged(lid) ]_vars

\* A tick in which one lane received a vehicle and another lane discharged one.
C1_Witness ==
    /\ ret.kind = "return"
    /\ departures.discharged_count > 0
    /\ \E lid \in DOMAIN lanes :
          lid # departures.lane /\ ret.lane_states[lid].new_arrivals > 0

\* C2: Minimum dwell.  The first switch is logged at simTime >= minGreenTime and
\* any two consecutive switches are at least minGreenTime apart.
C2_MinimumDwell ==
    \A i \in 1..Len(events_log) :
        events_log[i].time - (IF i = 1 THEN 0 ELSE events_log[i - 1].time)
            >= FormatTime(config.min_green_time)

\* Two switches have happened.
C2_Witness == Len(events_log) >= 2

\* C3: Maximum dwell.  With minGreenTime < maxGreenTime, a tick whose evaluation
\* sees stateDuration >= maxGreenTime executes a switch, and unless the
\* LANE_EMPTY condition holds its reason is MAX_TIME_EXPIRED.
C3_MaximumDwell ==
    [][ ( /\ Returned
          /\ config.min_green_time < config.max_green_time
          /\ SeenMustSwitch )
        => /\ Len(events_log') = Len(events_log) + 1
           /\ active_lane_id' # active_lane_id
           /\ ret'.switch_event.tag # "None"
           /\ ~SeenLaneEmpty => ret'.switch_event.tag = "MAX_TIME_EXPIRED" ]_vars

\* A tick forced a switch at the maximum green time.
C3_Witness ==
    /\ ret.kind = "return"
    /\ ret.switch_event.tag = "MAX_TIME_EXPIRED"
    /\ Len(events_log) >= 1
    /\ LastEvent.reason.tag = "MAX_TIME_EXPIRED"

\* C4: Monotonic counters.  From one step call to the next, the junction
\* simTime, every lane's simTime and every lane's vehiclesPassed never decrease.
C4_MonotonicCounters ==
    [][ /\ sim_time' >= sim_time
        /\ \A lid \in DOMAIN lanes :
              /\ lanes'[lid].sim_time >= lanes[lid].sim_time
              /\ lanes'[lid].vehicles_passed >= lanes[lid].vehicles_passed ]_vars

\* C5: Starvation-free departure.  When the served lane holds exactly one vehicle
\* of discharge cost c, process_traffic(duration) with 0.5 < duration < c
\* discharges exactly that vehicle, and with duration <= 0.5 and duration < c it
\* discharges none.
C5_StarvationFreeDeparture ==
    [][ ( Returned /\ SeenQueue(active_lane_id') = 1 ) =>
          LET lid == active_lane_id'
              v == IF lanes[lid].queue # << >> THEN lanes[lid].queue[1].type
                   ELSE ret'.lane_states[lid].new_types[1]
              c == DischargeCost(v)
          IN  /\ ( 1 < TickDt /\ TickDt < c ) =>
                    /\ lanes'[lid].queue = << >>
                    /\ lanes'[lid].vehicles_passed = lanes[lid].vehicles_passed + 1
                    /\ departures'.discharged_count = 1
              /\ ( TickDt <= 1 /\ TickDt < c ) =>
                    /\ Len(lanes'[lid].queue) = 1
                    /\ lanes'[lid].vehicles_passed = lanes[lid].vehicles_passed
                    /\ departures'.discharged_count = 0 ]_vars

\* A lone Truck (cost 4.0 s) left in a green of less than 4.0 s.
C5_Witness ==
    /\ ret.kind = "return"
    /\ departures.discharged_types = << "Truck" >>
    /\ ret.lane_states[departures.lane].queue_length = 1
    /\ lanes[departures.lane].queue = << >>

\* C6: 0 <= lastSwitchTime <= simTime after construction and after every step.
C6_SwitchTimeInRange == 0 <= last_switch_time /\ last_switch_time <= sim_time

\* A switch happened at a positive time and the clock has moved on since.
C6_Witness == 0 < last_switch_time /\ last_switch_time < sim_time

\* C7: activeLaneId is a key of lanes, after construction with any config and
\* after any sequence of steps.
C7_ActiveLaneKnown == active_lane_id \in DOMAIN lanes

\* C8: In a tick, vehiclesPassed of a lane grows only if the lane is the active
\* lane at departure processing; every other lane keeps its vehiclesPassed and
\* the vehicles it had queued stay at the head of its queue, in order.
C8_OnlyActiveLaneDischarges ==
    [][ Returned =>
          \A lid \in DOMAIN lanes :
              /\ lanes'[lid].vehicles_passed > lanes[lid].vehicles_passed
                    => lid = active_lane_id'
              /\ lid # active_lane_id' =>
                    /\ lanes'[lid].vehicles_passed = lanes[lid].vehicles_passed
                    /\ Len(lanes'[lid].queue) >= Len(lanes[lid].queue)
                    /\ SubSeq(lanes'[lid].queue, 1, Len(lanes[lid].queue))
                          = lanes[lid].queue ]_vars

\* A tick switched away from a lane that had vehicles queued, and the newly
\* active lane discharged.
C8_Witness ==
    /\ ret.kind = "return"
    /\ ret.switch_event.tag # "None"
    /\ departures.discharged_count > 0
    /\ Len(events_log) >= 1
    /\ lanes[LastEvent.from].queue # << >>

\* C9: Hold guard.  An evaluation that sees stateDuration < minGreenTime returns
\* no event and leaves activeLaneId, lastSwitchTime, laneLastGreenTime and
\* eventsLog unchanged, whatever the queues and scores are.
C9_HoldGuard ==
    [][ ( Returned /\ SeenDuration < config.min_green_time ) =>
          /\ ret'.switch_event = NoEvent
          /\ active_lane_id' = active_lane_id
          /\ last_switch_time' = last_switch_time
          /\ lane_last_green_times' = lane_last_green_times
          /\ events_log' = events_log ]_vars

\* A tick held the green although the active lane was empty and a waiting lane
\* scored more than queueThreshold above it.
C9_Witness ==
    /\ ret.kind = "return"
    /\ ret.switch_event.tag = "None"
    /\ 0 < ret.green_time /\ ret.green_time < config.min_green_time
    /\ ret.lane_states[active_lane_id].queue_length = 0
    /\ \E lid \in DOMAIN lanes \ {active_lane_id} :
          4 * Len(lanes[lid].queue)
            + config.alpha_wait_weight * (sim_time - lane_last_green_times[lid])
              > 4 * config.queue_threshold

\* C10: Transition priority.  Past the hold guard, the logged reason is
\* LANE_EMPTY whenever the LANE_EMPTY condition holds, even if mustSwitch or the
\* priority condition holds too, and it is MAX_TIME_EXPIRED whenever mustSwitch
\* holds without the LANE_EMPTY condition, even if the priority condition holds.
C10_TransitionPriority ==
    [][ ( Returned /\ SeenDuration >= config.min_green_time ) =>
          /\ SeenLaneEmpty =>
                /\ Len(events_log') = Len(events_log) + 1
                /\ events_log'[Len(events_log')].reason.tag = "LANE_EMPTY"
          /\ ( SeenMustSwitch /\ ~SeenLaneEmpty ) =>
                /\ Len(events_log') = Len(events_log) + 1
                /\ events_log'[Len(events_log')].reason.tag = "MAX_TIME_EXPIRED" ]_vars

\* The first switch is logged as LANE_EMPTY at a time when the green had lasted
\* maxGreenTime: mustSwitch held too, and so did the priority condition (the
\* incumbent scored 0 and the challenger more than 5 > queueThreshold).
C10_Witness ==
    /\ ret.kind = "return"
    /\ ret.switch_event.tag = "LANE_EMPTY"
    /\ Len(events_log) = 1
    /\ LastEvent.reason.tag = "LANE_EMPTY"
    /\ LastEvent.time >= FormatTime(config.max_green_time)
    /\ config.queue_threshold < 5

\* The lane a tick switched to is a challenger no other challenger outscored
\* at the evaluation.
SwitchedToBest ==
    /\ Len(events_log') = Len(events_log) + 1
    /\ active_lane_id' \in Challengers
    /\ events_log'[Len(events_log')].to = active_lane_id'
    /\ \A lid \in Challengers : SeenScore(lid) <= SeenScore(active_lane_id')

\* C11: LANE_EMPTY rule.  Whenever the evaluation runs with stateDuration >=
\* minGreenTime, the active lane's queue is empty and the best non-active lane
\* scores more than 5, the controller switches to that best lane in this tick
\* and tags the reason LANE_EMPTY.
C11_LaneEmptyRule ==
    [][ ( Returned /\ SeenDuration >= config.min_green_time /\ SeenLaneEmpty ) =>
          /\ SwitchedToBest
          /\ ret'.switch_event.tag = "LANE_EMPTY"
          /\ ret'.switch_event.lane = active_lane_id
          /\ events_log'[Len(events_log')].reason = ret'.switch_event
          /\ events_log'[Len(events_log')].from = active_lane_id ]_vars

\* A tick before maxGreenTime switched away from the empty first green to a
\* lane that has vehicles queued: only the LANE_EMPTY rule and the priority
\* rule could fire, and LANE_EMPTY is the reason.
C11_Witness ==
    /\ ret.kind = "return"
    /\ ret.switch_event.tag = "LANE_EMPTY"
    /\ Len(events_log) = 1
    /\ LastEvent.time < FormatTime(config.max_green_time)
    /\ ret.lane_states[LastEvent.from].queue_length = 0
    /\ ret.lane_states[LastEvent.to].queue_length > 0

\* C12: PRIORITY_OVERRIDE rule.  With minGreenTime <= stateDuration <
\* maxGreenTime and a non-empty active queue, a switch occurs if and only if the
\* best challenger scores more than the active lane plus queueThreshold; it goes
\* to the best challenger with reason PRIORITY_OVERRIDE.  A challenger that
\* exceeds the incumbent by no more than queueThreshold causes no switch.
C12_PriorityOverrideRule ==
    [][ ( /\ Returned
          /\ SeenDuration >= config.min_green_time
          /\ SeenDuration < config.max_green_time
          /\ SeenQueue(active_lane_id) > 0 ) =>
          IF SeenPriority
          THEN /\ SwitchedToBest
               /\ ret'.switch_event.tag = "PRIORITY_OVERRIDE"
               /\ events_log'[Len(events_log')].reason = ret'.switch_event
          ELSE /\ events_log' = events_log
               /\ active_lane_id' = active_lane_id
               /\ ret'.switch_event = NoEvent ]_vars

\* A tick before maxGreenTime switched with reason PRIORITY_OVERRIDE away from
\* a lane whose logged score is above 0: its queue was not empty.
C12_Witness ==
    /\ ret.kind = "return"
    /\ ret.switch_event.tag = "PRIORITY_OVERRIDE"
    /\ LastEvent.reason.tag = "PRIORITY_OVERRIDE"
    /\ LastEvent.reason.scores[2] > 0
    /\ LastEvent.reason.scores[1] > LastEvent.reason.scores[2]
    /\ ret.lane_states[LastEvent.from].queue_length > 0

\* C13: MAX_TIME_EXPIRED rule.  When stateDuration has reached maxGreenTime and
\* neither the LANE_EMPTY condition nor the priority condition holds, the tick
\* still switches, with reason MAX_TIME_EXPIRED, to the non-active lane of the
\* highest score queueLength + alpha * (simTime - laneLastGreenTime).
C13_MaxTimeExpiredRule ==
    [][ ( /\ Returned
          /\ config.min_green_time < config.max_green_time
          /\ SeenMustSwitch
          /\ ~SeenLaneEmpty
          /\ ~SeenPriority ) =>
          /\ SwitchedToBest
          /\ ret'.switch_event.tag = "MAX_TIME_EXPIRED"
          /\ events_log'[Len(events_log')].reason = ret'.switch_event ]_vars

\* The first switch came exactly at maxGreenTime with reason MAX_TIME_EXPIRED
\* to a lane that scored no more than queueThreshold above the incumbent and
\* more than another challenger.
C13_Witness ==
    /\ ret.kind = "return"
    /\ ret.switch_event.tag = "MAX_TIME_EXPIRED"
    /\ Len(events_log) = 1
    /\ LastEvent.time = FormatTime(config.max_green_time)
    /\ 4 * ret.lane_states[LastEvent.to].queue_length + config.alpha_wait_weight * sim_time
         <= 4 * ret.lane_states[LastEvent.from].queue_length + 4 * config.queue_threshold
    /\ \E lid \in DOMAIN lanes \ { LastEvent.from, LastEvent.to } :
          ret.lane_states[lid].queue_length < ret.lane_states[LastEvent.to].queue_length

\* The tick touched the state a switch writes.
SwitchStateChanged ==
    \/ events_log' # events_log
    \/ active_lane_id' # active_lane_id
    \/ last_switch_time' # last_switch_time
    \/ lane_last_green_times' # lane_last_green_times

\* C14: Transition action.  Every executed switch appends exactly one event
\* holding the current simTime, from = the lane active before, to = the target
\* and the reason; it sets activeLaneId to the target and lastSwitchTime and the
\* target's laneLastGreenTime to simTime; the other lanes' laneLastGreenTime,
\* every queue and every vehiclesPassed are left as the arrivals and the
\* departures of the tick alone make them.
C14_TransitionAction ==
    [][ ( Returned /\ SwitchStateChanged ) =>
          /\ events_log' = Append(events_log,
                                  [ time   |-> FormatTime(sim_time'),
                                    event  |-> "SHIFT_PRIORITY",
                                    from   |-> active_lane_id,
                                    to     |-> active_lane_id',
                                    reason |-> ret'.switch_event ])
          /\ ret'.switch_event # NoEvent
          /\ active_lane_id' # active_lane_id
          /\ last_switch_time' = sim_time'
          /\ lane_last_green_times' =
                [ lane_last_green_times EXCEPT ![active_lane_id'] = sim_time' ]
          /\ \A lid \in DOMAIN lanes :
                /\ Len(lanes'[lid].queue) = SeenQueue(lid) - Discharged(lid)
                /\ lanes'[lid].vehicles_passed
                      = lanes[lid].vehicles_passed + Discharged(lid)
                /\ lid # active_lane_id' =>
                      /\ Len(lanes'[lid].queue) = Len(lanes[lid].queue)
                                                    + ret'.lane_states[lid].new_arrivals
                      /\ SubSeq(lanes'[lid].queue, 1, Len(lanes[lid].queue))
                            = lanes[lid].queue ]_vars

\* The second switch of a run, in a tick in which vehicles arrived and the
\* newly active lane discharged: the lane left keeps an earlier green time
\* than the one stamped now.
C14_Witness ==
    /\ ret.kind = "return"
    /\ ret.switch_event.tag # "None"
    /\ Len(events_log) = 2
    /\ departures.discharged_count > 0
    /\ \E lid \in DOMAIN lanes : ret.lane_states[lid].new_arrivals > 0
    /\ 0 < lane_last_green_times[LastEvent.from]
    /\ lane_last_green_times[LastEvent.from] < lane_last_green_times[LastEvent.to]

\* C15: step(dt) with dt <= 0 is rejected with an error and leaves simTime, the
\* queues, activeLaneId and eventsLog unchanged: a call that does not move the
\* junction clock forward raised, and the lanes, the clocks, the active lane and
\* the log are as before it.
C15_NonPositiveDtRejected ==
    [][ \/ sim_time' > sim_time
        \/ /\ ret'.kind \notin { "return", "none" }
           /\ lanes' = lanes
           /\ sim_time' = sim_time
           /\ active_lane_id' = active_lane_id
           /\ events_log' = events_log ]_vars

(***************************************************************************)
(* Construction and update with any configuration values: __init__ merges  *)
(* the caller's config over the defaults and the dashboard writes its      *)
(* slider values into junction.config, neither of them looking at the      *)
(* values.                                                                 *)
(***************************************************************************)
\* JunctionManager(): the defaults, the junction the dashboard runs.
DefaultConfig ==
    [ min_green_time |-> 10, max_green_time |-> 60, queue_threshold |-> 15,
      max_wait_time |-> 90, alpha_wait_weight |-> 1,
      arrival_rates |-> << <<"North", 12>>, <<"South", 10>>, <<"East", 8>>, <<"West", 15>> >> ]

\* A caller's config with max_green_time 1.0 s below min_green_time 2.0 s.
InvertedGreenConfig ==
    [ min_green_time |-> 4, max_green_time |-> 2, queue_threshold |-> 1,
      max_wait_time |-> 90, alpha_wait_weight |-> 6,
      arrival_rates |-> << <<"North", 12>>, <<"South", 10>>, <<"East", 0>>, <<"West", 0>> >> ]

\* A caller's config with a negative arrival rate for South.
NegativeRateConfig ==
    [ min_green_time |-> 2, max_green_time |-> 4, queue_threshold |-> 1,
      max_wait_time |-> 90, alpha_wait_weight |-> 6,
      arrival_rates |-> << <<"North", 12>>, <<"South", -10>>, <<"East", 0>>, <<"West", 0>> >> ]

UncheckedConfigs == { DefaultConfig, InvertedGreenConfig, NegativeRateConfig }

InitUnchecked == InitWith(UncheckedConfigs)

\* The positions of the two green time sliders, <<min, max>> in half seconds:
\* min from 1.0 s to 15.0 s and max from 10.0 s to 60.0 s, each set on its own.
SliderGreenTimes == { <<2, 20>>, <<10, 60>>, <<20, 20>>, <<30, 20>> }

\* One rerun of the dashboard script up to "Apply Config Updates": the sliders
\* start from the values of junction.config, which lie in the slider ranges for
\* the junction the dashboard constructs, and their positions are written back.
ConfigUpdate ==
    /\ config.min_green_time \in 2..30
    /\ config.max_green_time \in 20..120
    /\ config.queue_threshold \in 5..40
    /\ config.max_wait_time \in 40..180
    /\ \E g \in SliderGreenTimes :
          config' = [ config EXCEPT !.min_green_time = g[1], !.max_green_time = g[2] ]
    /\ UNCHANGED << lanes, active_lane_id, sim_time, last_switch_time,
                    lane_last_green_times, events_log, ret, departures >>

\* A step of a junction of any configuration; a call that raises in a lane has
\* moved that lane's clock, which the bound on the run follows too.
UncheckedTick ==
    \E dt \in 1..MaxDt :
        /\ \A lid \in DOMAIN lanes : lanes[lid].sim_time + dt <= MaxTime
        /\ \E arr \in ArrivalChoices(dt) : Step(dt, arr)

NextUnchecked == UncheckedTick \/ ConfigUpdate

SpecUnchecked == InitUnchecked /\ [][NextUnchecked]_vars

\* max_green_time <= min_green_time, or a negative lane arrival rate.
InvalidConfig(cfg) ==
    \/ cfg.max_green_time <= cfg.min_green_time
    \/ \E i \in 1..Len(cfg.arrival_rates) : cfg.arrival_rates[i][2] < 0

\* C16: Invalid configuration fails fast.  Constructing or updating a junction
\* with max_green_time <= min_green_time or with a negative lane arrival rate
\* ends in a configuration error instead of yielding a controller that can be
\* stepped: no junction whose configuration is invalid completes a step.
C16_InvalidConfigFailsFast ==
    [][ InvalidConfig(config) => ~( Returned /\ sim_time' > sim_time ) ]_vars

\* The discharge cost of the first n vehicle types of a sequence.
RECURSIVE CostOfFirst(_, _)
CostOfFirst(types, n) ==
    IF n = 0 THEN 0 ELSE CostOfFirst(types, n - 1) + DischargeCost(types[n])

\* The lane served in the departure phase of the tick used a green of exactly
\* green: every vehicle it discharged fitted into what was left of green (the
\* first one under the one-vehicle allowance), and the vehicle left at the head
\* of the queue, if any, did not.
ServedWithGreen(green) ==
    LET types == departures'.discharged_types
        n == departures'.discharged_count
        left == lanes'[departures'.lane].queue
        rest == green - CostOfFirst(types, n)
    IN  /\ n = Len(types)
        /\ n >= 1 => ( green >= DischargeCost(types[1]) \/ green > GuardTime )
        /\ \A k \in 2..n : green - CostOfFirst(types, k - 1) >= DischargeCost(types[k])
        /\ left # << >> =>
              ~( /\ rest > 0
                 /\ \/ rest >= DischargeCost(left[1].type)
                    \/ ( n = 0 /\ rest > GuardTime ) )

\* C17: Tick phase order.  Within one tick the arrivals and the clock advance
\* come before the switch evaluation, and the departures come after it, on the
\* lane that is active after the evaluation: the evaluation decides on the
\* queues after the arrivals and on the advanced clock, and in a tick in which
\* a switch occurs the newly active lane is the only one that discharges, with
\* the full dt as its green time.
C17_TickPhaseOrder ==
    [][ Returned =>
          /\ ret'.sim_time = sim_time'
          /\ \A lid \in DOMAIN lanes :
                SeenQueue(lid) = Len(lanes[lid].queue) + ret'.lane_states[lid].new_arrivals
          /\ ( events_log' # events_log ) <=>
                ( /\ SeenDuration >= config.min_green_time
                  /\ ( SeenLaneEmpty \/ SeenMustSwitch \/ SeenPriority ) )
          /\ events_log' # events_log =>
                events_log'[Len(events_log')].time = FormatTime(sim_time')
          /\ departures'.lane = active_lane_id'
          /\ ServedWithGreen(TickDt)
          /\ \A lid \in DOMAIN lanes \ { active_lane_id' } :
                /\ Len(lanes'[lid].queue) = SeenQueue(lid)
                /\ lanes'[lid].vehicles_passed = lanes[lid].vehicles_passed ]_vars

\* A vehicle arrived on a waiting lane in a tick, the evaluation of the same
\* tick switched to that lane, and the lane discharged in the same tick, while
\* the lane left still has vehicles queued.
C17_Witness ==
    /\ ret.kind = "return"
    /\ ret.switch_event.tag # "None"
    /\ ret.lane_states[active_lane_id].new_arrivals > 0
    /\ departures.lane = active_lane_id
    /\ departures.discharged_count > 0
    /\ lanes[LastEvent.from].queue # << >>

\* C18: At most one transition per tick.  Each step appends zero or one event
\* to eventsLog; it appends one exactly when activeLaneId changed in the step,
\* and the switch_event it returns is non-empty exactly in that case.
C18_AtMostOneTransition ==
    [][ Returned =>
          /\ Len(events_log') \in { Len(events_log), Len(events_log) + 1 }
          /\ ( Len(events_log') = Len(events_log) + 1 )
                <=> ( active_lane_id' # active_lane_id )
          /\ ( ret'.switch_event # NoEvent ) <=> ( active_lane_id' # active_lane_id )
          /\ ret'.active_lane = active_lane_id' ]_vars

\* The tick before appended the second event of the log and changed the
\* active lane from the first green's successor to another lane.
C18_Witness ==
    /\ ret.kind = "return"
    /\ ret.switch_event # NoEvent
    /\ Len(events_log) = 2
    /\ events_log[1].to = events_log[2].from
    /\ events_log[2].to = active_lane_id
    /\ events_log[2].from # active_lane_id

\* C19: eventsLog is append-only and chronological.  No step removes or alters
\* an event already logged, and the logged simTime values are non-decreasing in
\* log order.
C19_LogAppendOnlyChronological ==
    [][ /\ Len(events_log') >= Len(events_log)
        /\ SubSeq(events_log', 1, Len(events_log)) = events_log
        /\ \A i \in 1..Len(events_log') : \A k \in i..Len(events_log') :
              events_log'[i].time <= events_log'[k].time ]_vars

\* A tick appended a second event behind the first one, which was logged at an
\* earlier time and is still the first of the log.
C19_Witness ==
    /\ Len(events_log) = 2
    /\ ret.kind = "return"
    /\ events_log[2].reason = ret.switch_event
    /\ events_log[1].time < events_log[2].time
    /\ events_log[2].time = FormatTime(sim_time)
    /\ events_log[1].from = "North"

\* The position of a lane in the key order of lanes.
KeyOrder(lid) ==
    CHOOSE i \in 1..Len(config.arrival_rates) : config.arrival_rates[i][1] = lid

\* C20: Candidate selection excludes the active lane and breaks ties by key
\* order.  The lane a tick switches to is never the lane that was active; it
\* has the highest score among the other lanes, and among those of equal score
\* it is the first in the key order of lanes.
C20_CandidateSelection ==
    [][ ( Returned /\ events_log' # events_log ) =>
          LET to == events_log'[Len(events_log')].to
          IN  /\ to # active_lane_id
              /\ to \in DOMAIN lanes
              /\ to = active_lane_id'
              /\ \A lid \in Challengers :
                    /\ SeenScore(lid) <= SeenScore(to)
                    /\ SeenScore(lid) = SeenScore(to) => KeyOrder(to) <= KeyOrder(lid) ]_vars

\* The second switch of a run chose between lanes of equal highest score, one
\* of them the first key North, and took North although a later key tied.
C20_Witness ==
    /\ ret.kind = "return"
    /\ ret.switch_event # NoEvent
    /\ Len(events_log) = 2
    /\ LastEvent.to = "North"
    /\ \E lid \in DOMAIN lanes \ { LastEvent.from, LastEvent.to } :
          /\ lane_last_green_times[lid] = 0
          /\ events_log[1].from = "North"
          /\ ret.lane_states[lid].queue_length = ret.lane_states["North"].queue_length

\* The logged time, in tenths of a second, at which a lane last stopped being
\* the active lane: the time of the last event that switched away from it, or 0
\* if the lane never held green.
LastGreenEnd(lid) ==
    LET left == { i \in 1..Len(events_log) : events_log[i].from = lid }
    IN  IF left = {} THEN 0
        ELSE events_log[CHOOSE i \in left : \A k \in left : k <= i].time

\* C21: Wait time in the priority score.  For every non-active lane L the
\* waitTime of score(L) is the simulated time since L last held green: the
\* time laneLastGreenTime[L], from which the evaluation counts the wait, is the
\* time at which L stopped being the active lane, or 0 if it never was active.
C21_WaitSinceGreenEnded ==
    \A lid \in DOMAIN lanes \ { active_lane_id } :
        FormatTime(lane_last_green_times[lid]) = LastGreenEnd(lid)

\* The queue of a lane as process_traffic of the tick found it: the vehicles
\* queued before the tick followed by the arrivals the lane reported, stamped
\* with the lane clock after the tick.
QueueAtCall(lid) ==
    lanes[lid].queue \o
        [ i \in 1..Len(ret'.lane_states[lid].new_types) |->
            [ type |-> ret'.lane_states[lid].new_types[i],
              arrival_time |-> lanes'[lid].sim_time ] ]

\* C22: process_traffic discharges in FIFO order.  The discharged vehicles are
\* exactly a prefix of the queue as it was at the call, reported in that order;
\* the remaining queue is the untouched suffix; and a vehicle other than the
\* first one discharged in the call is discharged only if the time remaining
\* before it is at least its discharge cost.
C22_FifoDischarge ==
    [][ Returned =>
          LET lid == departures'.lane
              q == QueueAtCall(lid)
              n == departures'.discharged_count
              types == departures'.discharged_types
          IN  /\ n <= Len(q)
              /\ Len(types) = n
              /\ \A k \in 1..n : types[k] = q[k].type
              /\ lanes'[lid].queue = SubSeq(q, n + 1, Len(q))
              /\ lanes'[lid].vehicles_passed = lanes[lid].vehicles_passed + n
              /\ \A k \in 2..n :
                    TickDt - CostOfFirst(types, k - 1) >= DischargeCost(types[k]) ]_vars

\* A call discharged two vehicles and left a vehicle of another arrival behind
\* them in the queue.
C22_Witness ==
    /\ ret.kind = "return"
    /\ departures.discharged_count = 2
    /\ lanes[departures.lane].queue # << >>
    /\ lanes[departures.lane].vehicles_passed >= 2

\* C25: TrafficSimulator.step(dt) first advances the lane clock by dt, then
\* appends exactly new_arrivals vehicles to the tail of the queue, each stamped
\* with the advanced lane simTime, without removing or reordering the vehicles
\* already queued; the reported queue_length is the queue length after the
\* append.
C25_LaneStepAppends ==
    [][ Returned =>
          \A lid \in DOMAIN lanes :
              LET report == ret'.lane_states[lid]
                  q == lanes'[lid].queue
                  old == Len(lanes[lid].queue) - Discharged(lid)
              IN  /\ lanes'[lid].sim_time = lanes[lid].sim_time + TickDt
                  /\ report.new_arrivals = Len(report.new_types)
                  /\ report.queue_length = Len(lanes[lid].queue) + report.new_arrivals
                  /\ Len(q) = report.queue_length - Discharged(lid)
                  /\ q = SubSeq(QueueAtCall(lid), Discharged(lid) + 1,
                                Len(QueueAtCall(lid)))
                  /\ \A i \in 1..Len(q) :
                        i > old => q[i].arrival_time = lanes'[lid].sim_time ]_vars

\* A lane that was not served holds a vehicle of an earlier tick in front of a
\* vehicle that arrived in this tick, stamped with the lane clock of now.
C25_Witness ==
    /\ ret.kind = "return"
    /\ \E lid \in DOMAIN lanes \ { departures.lane } :
          /\ ret.lane_states[lid].new_arrivals > 0
          /\ Len(lanes[lid].queue) >= 2
          /\ lanes[lid].queue[1].arrival_time < lanes[lid].sim_time
          /\ lanes[lid].queue[Len(lanes[lid].queue)].arrival_time = lanes[lid].sim_time
          /\ lanes[lid].sim_time > 0

\* C26: Bounded over-run of green time.  In any process_traffic(duration) call
\* either the discharge costs of the discharged vehicles sum to at most
\* duration, or exactly one vehicle was discharged: the one-vehicle allowance
\* is used only for the first vehicle of a call and nothing follows it.
C26_BoundedOverrun ==
    [][ Returned =>
          \/ CostOfFirst(departures'.discharged_types, departures'.discharged_count)
                <= TickDt
          \/ departures'.discharged_count = 1 ]_vars

\* A call discharged a Truck, whose cost of 4.0 s is beyond any green of the
\* run, and left the vehicles behind it queued.
C26_Witness ==
    /\ ret.kind = "return"
    /\ departures.discharged_types = << "Truck" >>
    /\ lanes[departures.lane].queue # << >>
    /\ DischargeCost("Truck") > MaxDt

\* C24: A LANE_EMPTY switch gives the green only to a lane with demand: whenever
\* a switch with reason LANE_EMPTY is executed, the target lane's queue holds at
\* least one vehicle at that moment.
C24_LaneEmptyTargetHasDemand ==
    [][ ( Returned /\ ret'.switch_event.tag = "LANE_EMPTY" ) =>
          SeenQueue(active_lane_id') >= 1 ]_vars

\* C27: The green bookkeeping stays consistent.  In every reachable state
\* laneLastGreenTime[activeLaneId] = lastSwitchTime, and laneLastGreenTime[L] <=
\* lastSwitchTime <= simTime for every lane L.
C27_GreenBookkeeping ==
    /\ lane_last_green_times[active_lane_id] = last_switch_time
    /\ last_switch_time <= sim_time
    /\ \A lid \in DOMAIN lanes : lane_last_green_times[lid] <= last_switch_time

\* After two switches the lane left last has a green time after 0 and before
\* the last switch, and the lanes that never held green still have 0.
C27_Witness ==
    /\ Len(events_log) = 2
    /\ 0 < lane_last_green_times[LastEvent.from]
    /\ lane_last_green_times[LastEvent.from] < last_switch_time
    /\ lane_last_green_times[active_lane_id] = last_switch_time
    /\ \E lid \in DOMAIN lanes : lid # active_lane_id /\ lane_last_green_times[lid] = 0

\* C28: Switch events form a chain.  Every logged event has from # to, the
\* first event's from is the initial active lane "North", each later event's
\* from is the previous event's to, and the last event's to is the current
\* activeLaneId.
C28_EventChain ==
    /\ \A i \in 1..Len(events_log) : events_log[i].from # events_log[i].to
    /\ Len(events_log) >= 1 => events_log[1].from = "North"
    /\ \A i \in 2..Len(events_log) : events_log[i].from = events_log[i - 1].to
    /\ Len(events_log) >= 1 => events_log[Len(events_log)].to = active_lane_id
    /\ Len(events_log) = 0 => active_lane_id = "North"

\* The log holds a chain of two events that leads from North over another lane
\* to the lane active now.
C28_Witness ==
    /\ Len(events_log) = 2
    /\ events_log[1].from = "North"
    /\ events_log[1].to # "North"
    /\ events_log[2].from = events_log[1].to
    /\ events_log[2].to = active_lane_id

\* C29: Lane clocks stay in lock-step with the junction clock.  After
\* construction and after every JunctionManager.step every lane's simTime
\* equals the junction's simTime, so that every queued vehicle's arrival_time
\* is at most the junction simTime.
C29_LaneClocksInLockStep ==
    \A lid \in DOMAIN lanes :
        /\ lanes[lid].sim_time = sim_time
        /\ \A i \in 1..Len(lanes[lid].queue) :
              lanes[lid].queue[i].arrival_time <= sim_time

(***************************************************************************)
(* The dashboard between two ticks: its lane_data loop calls               *)
(* lane.process_traffic(0) on every lane, active or not.  process_traffic  *)
(* takes any number, so the calls with a negative duration are here too.   *)
(***************************************************************************)
\* One call lane.process_traffic(duration) with duration <= 0 on the lane lid,
\* outside any step: the lane after it and what the call returned.
IdleTrafficCall(lid, duration) ==
    LET r == ProcessTraffic(lanes[lid], duration)
    IN  /\ lanes' = [ lanes EXCEPT ![lid] = r.lane ]
        /\ departures' = [ lane             |-> lid,
                           discharged_count |-> r.stats.discharged_count,
                           discharged_types |-> r.stats.discharged_types,
                           avg_wait_time    |-> r.stats.avg_wait_time ]
        /\ UNCHANGED << config, active_lane_id, sim_time, last_switch_time,
                        lane_last_green_times, events_log, ret >>

LaneDataLoop ==
    \E lid \in DOMAIN lanes : \E duration \in (0 - MaxBack)..0 :
        IdleTrafficCall(lid, duration)

NextDashboard == Tick \/ LaneDataLoop

SpecDashboard == InitWith({ ShortGreenConfig }) /\ [][NextDashboard]_vars

\* C30: process_traffic with duration <= 0 is a no-op on lane state.  It
\* discharges nothing, leaves the queue and vehiclesPassed unchanged and
\* reports discharged_count 0 and avg_wait_time 0, so that the dashboard's
\* process_traffic(0) call on every lane between ticks never lets a non-active
\* lane discharge.
C30_IdleTrafficCallNoOp ==
    [][ sim_time' = sim_time =>
          /\ lanes' = lanes
          /\ departures'.discharged_count = 0
          /\ departures'.discharged_types = << >>
          /\ departures'.avg_wait_time[1] = 0 ]_vars

\* The last call was process_traffic with duration <= 0 on a lane that is not
\* the active one and has vehicles queued; they are all still there.
C30_Witness ==
    /\ ret.kind = "return"
    /\ departures.lane \in DOMAIN lanes \ { active_lane_id }
    /\ lanes[departures.lane].queue # << >>
    /\ departures.discharged_count = 0
    /\ lanes[departures.lane].vehicles_passed = 0

(***************************************************************************)
(* Ticks without end.  The controller reads the clocks only through        *)
(* differences (sim_time - last_switch_time, sim_time - lane_last_green_   *)
(* times[L]), so after each tick this specification moves the origin of    *)
(* time to the current sim_time: the junction it keeps is the code's       *)
(* junction shifted in time, and the state space of an unending run is     *)
(* finite.  What does not feed back into the control is not followed here: *)
(* the event log, the vehicles_passed counters, the arrival stamps and the *)
(* returned statistics.  Queue lengths are bounded by LiveMaxQueue.        *)
(***************************************************************************)
LiveMaxDt == 2
LiveMaxQueue == 1
WaitCap == 24

\* min 1.0 s, max 2.0 s, threshold 1, alpha 3.0; vehicles arrive on every lane.
LiveConfig ==
    [ min_green_time |-> 2, max_green_time |-> 4, queue_threshold |-> 1,
      max_wait_time |-> 90, alpha_wait_weight |-> 6,
      arrival_rates |-> << <<"North", 12>>, <<"South", 10>>, <<"East", 8>>, <<"West", 15>> >> ]

InitLive == InitWith({ LiveConfig })

\* The draws of one tick: at most one Bike per lane, none on a lane of rate 0 or
\* on a lane whose queue is at its bound.
LiveArrivals ==
    { arr \in [ DOMAIN lanes -> { << >>, << "Bike" >> } ] :
        \A lid \in DOMAIN lanes :
            arr[lid] # << >> =>
                lanes[lid].arrival_rate > 0 /\ Len(lanes[lid].queue) < LiveMaxQueue }

\* A lane with its clock and its arrival stamps at the new origin of time.
Rebased(lane) ==
    [ lane EXCEPT !.sim_time = 0,
                  !.vehicles_passed = 0,
                  !.queue = [ i \in 1..Len(lane.queue) |->
                                [ lane.queue[i] EXCEPT !.arrival_time = 0 ] ] ]

\* JunctionManager.step(dt), then the origin of time moved to the new sim_time.
\* A tick that would leave a lane waiting longer than WaitCap is not taken, so
\* that a run in which a wait grows without bound stops, and is seen to stop.
LiveStep(dt, arr) ==
    \E r \in { StepResult(Junction, dt, arr) } :
      LET now == r.j.sim_time
      IN
        /\ r.ret.kind = "return"
        /\ \A lid \in DOMAIN lanes : now - r.j.lane_last_green_times[lid] <= WaitCap
        /\ config' = r.j.config
        /\ lanes' = [ lid \in DOMAIN r.j.lanes |-> Rebased(r.j.lanes[lid]) ]
        /\ active_lane_id' = r.j.active_lane_id
        /\ sim_time' = 0
        /\ last_switch_time' = r.j.last_switch_time - now
        /\ lane_last_green_times' =
              [ lid \in DOMAIN r.j.lane_last_green_times |->
                  r.j.lane_last_green_times[lid] - now ]
        /\ events_log' = << >>
        /\ ret' = [ NoReturn("return") EXCEPT !.active_lane = r.ret.active_lane,
                                              !.switch_event = r.ret.switch_event ]
        /\ departures' = NoDepartures

LiveTick == \E dt \in 1..LiveMaxDt : \E arr \in LiveArrivals : LiveStep(dt, arr)

NextLive == LiveTick

\* The simulation loop keeps calling step: a tick is always possible.
SpecLive == InitLive /\ [][NextLive]_vars /\ WF_vars(NextLive)

====
